---- MODULE Spec2Model ----
(***************************************************************************)
(* Model of the preprint-alert-agent: the three-stage LangGraph pipeline   *)
(* (coordinator_node -> analyst_node -> report_writer_node), the CLI that  *)
(* stores the report, and the static site builder.                         *)
(* Texts are TLA+ strings; string functions are computed character by      *)
(* character as the Python code computes them.                             *)
(***************************************************************************)
EXTENDS Integers, Sequences, FiniteSets, TLC

VARIABLES
    pc,            \* position of async_main / the graph run
    apiKey,        \* OPENROUTER_API_KEY is set in the environment
    output_path,   \* async_main's argument: "None" or a path
    state,         \* AgentState: papers, interesting_paper_ids, analyses, final_report
    response,      \* outcome of the llm.ainvoke a node awaited, while the node holds it
    tasks,         \* the analyze_single_paper coroutines under asyncio.gather
    calls,         \* invocations of the collaborators: feed, html, llm
    nodes,         \* graph nodes entered so far, in order
    reportsDir,    \* reports/ : file name -> markdown text
    outFile,       \* text written to an --output path, or NoFile
    siteDir,       \* site/ : file name -> page
    edits,         \* number of changes made to reports/ between builds
    lastReports    \* the reports list of the latest build_site call

vars == <<pc, apiKey, output_path, state, response, tasks, calls, nodes,
          reportsDir, outFile, siteDir, edits, lastReports>>

pipelineVars == <<apiKey, output_path, state, response, tasks, calls, nodes, outFile>>

----------------------------------------------------------------------------
(* Bounds *)

MaxPapers == 2      \* longest feed
MaxLines == 2       \* most lines in a Selection LLM reply
NumDates == 3       \* dates an artifact may carry in the site specification
MaxEdits == 2       \* changes to reports/ between builds in the site specification

----------------------------------------------------------------------------
(* Python string primitives *)

Char(s, i) == SubSeq(s, i, i)

IsSpace(c) == c \in {" ", "\t", "\n", "\r"}

Min(a, b) == IF a < b THEN a ELSE b

\* s[:n]
Slice(s, n) == SubSeq(s, 1, Min(n, Len(s)))

\* s[n:]
Drop(s, n) == SubSeq(s, n + 1, Len(s))

RECURSIVE LStrip(_)
LStrip(s) ==
    IF Len(s) > 0 /\ IsSpace(Char(s, 1)) THEN LStrip(Drop(s, 1)) ELSE s

RECURSIVE RStrip(_)
RStrip(s) ==
    IF Len(s) > 0 /\ IsSpace(Char(s, Len(s))) THEN RStrip(Slice(s, Len(s) - 1)) ELSE s

\* str.strip()
Strip(s) == RStrip(LStrip(s))

\* str.startswith(p)
StartsWith(s, p) == Len(s) >= Len(p) /\ SubSeq(s, 1, Len(p)) = p

\* sub occurs in s at position k
At(s, k, sub) ==
    k >= 1 /\ k + Len(sub) - 1 <= Len(s) /\ SubSeq(s, k, k + Len(sub) - 1) = sub

\* index of the first occurrence of sub in s at or after position i, 0 when
\* there is none (s.find(sub, i - 1) + 1)
Find(s, sub, i) ==
    LET last == Len(s) - Len(sub) + 1
        k == CHOOSE x \in i..(last + 1) :
                 /\ x = last + 1 \/ SubSeq(s, x, x + Len(sub) - 1) = sub
                 /\ \A y \in i..(x - 1) : SubSeq(s, y, y + Len(sub) - 1) # sub
    IN  IF i > last \/ k = last + 1 THEN 0 ELSE k

\* the least element of a non-empty set of positions
First(S) == CHOOSE x \in S : \A y \in S : x <= y

\* index of the first "\n" in s at or after position i, 0 when there is none
FindNewline(s, i) == Find(s, "\n", i)

\* the lines of s from position from on, nl holding the positions of the "\n"
\* at or after from
RECURSIVE SplitAt(_, _, _)
SplitAt(s, nl, from) ==
    IF nl = {} THEN <<SubSeq(s, from, Len(s))>>
    ELSE LET k == First(nl)
         IN  <<SubSeq(s, from, k - 1)>> \o SplitAt(s, nl \ {k}, k + 1)

\* str.split("\n")
SplitLines(s) == SplitAt(s, {k \in 1..Len(s) : Char(s, k) = "\n"}, 1)

\* sep.join(parts)
RECURSIVE Join(_, _)
Join(sep, parts) ==
    IF Len(parts) = 0 THEN ""
    ELSE IF Len(parts) = 1 THEN parts[1]
    ELSE parts[1] \o sep \o Join(sep, Tail(parts))

\* [f(x) for x in s]
Map(s, F(_)) == [i \in DOMAIN s |-> F(s[i])]

\* sequences over S of length at most n
SeqsUpTo(S, n) == UNION {[1..k -> S] : k \in 0..n}

\* sub in s
Contains(s, sub) ==
    \E i \in 1..(Len(s) - Len(sub) + 1) : SubSeq(s, i, i + Len(sub) - 1) = sub

\* len(re.findall(sub, s)) for a literal sub that cannot overlap itself
Count(s, sub) ==
    Cardinality({k \in 1..(Len(s) - Len(sub) + 1) : SubSeq(s, k, k + Len(sub) - 1) = sub})

UpperCase == "ABCDEFGHIJKLMNOPQRSTUVWXYZ"

LowerCase == "abcdefghijklmnopqrstuvwxyz"

\* the lower-case letter of each upper-case letter
ToLower ==
    [c \in {Char(UpperCase, i) : i \in 1..Len(UpperCase)} |->
        Char(LowerCase, CHOOSE i \in 1..Len(UpperCase) : Char(UpperCase, i) = c)]

LowerChar(c) == IF c \in DOMAIN ToLower THEN ToLower[c] ELSE c

\* str.lower(), computed by halves; a part with no upper-case letter is itself
RECURSIVE Lower(_)
Lower(s) ==
    IF Len(s) <= 1 THEN LowerChar(s)
    ELSE IF \A i \in 1..Len(s) : Char(s, i) \notin DOMAIN ToLower THEN s
    ELSE Lower(Slice(s, Len(s) \div 2)) \o Lower(Drop(s, Len(s) \div 2))

\* the value of each decimal digit
DigitValue == [c \in {Char("0123456789", i) : i \in 1..10} |->
                  (CHOOSE i \in 1..10 : Char("0123456789", i) = c) - 1]

IsDigit(c) == c \in DOMAIN DigitValue

\* int(s) for a string of decimal digits
RECURSIVE ToInt(_)
ToInt(s) ==
    IF Len(s) = 0 THEN 0
    ELSE 10 * ToInt(Slice(s, Len(s) - 1)) + DigitValue[Char(s, Len(s))]

----------------------------------------------------------------------------
(* Paper records and collaborator outcomes *)

Paper(id, title) ==
    [arxiv_id |-> id, title |-> title, link |-> "https://arxiv.org/abs/" \o id]

\* papers the feed may list
PaperUniverse == {Paper("2401.1", "Good Paper"), Paper("2401.2", "Bad Paper")}

\* what fetch_papers may return (an HTTP error returns the empty list)
Feeds == SeqsUpTo(PaperUniverse, MaxPapers)

\* lines a Selection LLM reply may hold: valid ids (bare and padded), a
\* hallucinated id, a blank line, a '#' line
ReplyLines == {"2401.1", "  2401.2 ", "2401.9", "", "# 2401.2"}

SelectionReplies == {Join("\n", ls) : ls \in SeqsUpTo(ReplyLines, MaxLines)}

\* c repeated n times
RECURSIVE Repeat(_, _)
Repeat(c, n) ==
    IF n = 0 THEN ""
    ELSE IF n % 2 = 1 THEN c \o Repeat(c, n - 1)
    ELSE LET half == Repeat(c, n \div 2) IN half \o half

\* an analysis reply longer than the summary, and a short one
AnalysisReplies == {"Insight text.", "Long insight " \o Repeat("x", 490)}

ArticleReplies == {"# Reasoning today\n\nSee [Good Paper](https://arxiv.org/abs/2401.1)."}

NoResponse == [node |-> "none", kind |-> "none", content |-> ""]

\* llm.ainvoke returned a message with this content
Reply(node, content) == [node |-> node, kind |-> "reply", content |-> content]

\* llm.ainvoke raised
LlmError(node) == [node |-> node, kind |-> "error", content |-> ""]

NoFile == [kind |-> "none"]

make_initial_state ==
    [papers |-> <<>>, interesting_paper_ids |-> <<>>, analyses |-> <<>>, final_report |-> ""]

----------------------------------------------------------------------------
(* config.get_llm *)

\* get_llm raises ValueError when OPENROUTER_API_KEY is not set
GetLlmRaises(key) == ~key

----------------------------------------------------------------------------
(* coordinator_node *)

\* the non-blank, non-'#' lines of the reply, stripped
ParseIds(content) ==
    LET lines == SplitLines(Strip(content))
        kept == SelectSeq(lines, LAMBDA l : Strip(l) # "" /\ ~StartsWith(Strip(l), "#"))
    IN  Map(kept, Strip)

ValidIds(papers) == {papers[i].arxiv_id : i \in DOMAIN papers}

ValidateIds_Unfiltered(ids, papers) == ids

\* [id for id in interesting_ids if id in valid_ids]
ValidateIds(ids, papers) == SelectSeq(ids, LAMBDA id : id \in ValidIds(papers))

CoordinatorOnError_WritesReport(st) ==
    [st EXCEPT !.interesting_paper_ids = <<>>, !.final_report = "Selection failed."]

CoordinatorOnError_Reset(st) == [st EXCEPT !.papers = <<>>, !.interesting_paper_ids = <<>>]

\* the except branch of coordinator_node
CoordinatorOnError(st) == [st EXCEPT !.interesting_paper_ids = <<>>]

\* async_main -> run_agent: build_graph, make_initial_state, graph.ainvoke
AsyncMainStart ==
    /\ pc = "start"
    /\ pc' = "coordinator"
    /\ state' = make_initial_state
    /\ UNCHANGED <<apiKey, output_path, response, tasks, calls, nodes,
                   reportsDir, outFile, siteDir, edits, lastReports>>

\* coordinator_node up to its LLM call: fetch_papers, the empty-feed return,
\* get_llm.  An XML the feed parser rejects raises out of the node.
CoordinatorFetch ==
    /\ pc = "coordinator"
    /\ nodes' = Append(nodes, "coordinator")
    /\ calls' = [calls EXCEPT !.feed = @ + 1]
    /\ \/ /\ pc' = "failed"
          /\ UNCHANGED state
       \/ \E papers \in Feeds :
            IF papers = <<>>
            THEN /\ state' = [state EXCEPT !.papers = <<>>, !.interesting_paper_ids = <<>>]
                 /\ pc' = "analyst"
            ELSE /\ state' = [state EXCEPT !.papers = papers]
                 /\ pc' = IF GetLlmRaises(apiKey) THEN "failed" ELSE "coordinator_llm"
    /\ UNCHANGED <<apiKey, output_path, response, tasks, reportsDir, outFile, siteDir, edits, lastReports>>

\* the awaited llm.ainvoke of coordinator_node returns or raises, and the
\* node parses, validates and stores the ids
CoordinatorLLM ==
    /\ pc = "coordinator_llm"
    /\ calls' = [calls EXCEPT !.llm = @ + 1]
    /\ \/ /\ state' = CoordinatorOnError(state)
          /\ response' = LlmError("coordinator")
       \/ \E content \in SelectionReplies :
            /\ response' = Reply("coordinator", content)
            /\ state' = [state EXCEPT !.interesting_paper_ids =
                              ValidateIds(ParseIds(content), state.papers)]
    /\ pc' = "analyst"
    /\ UNCHANGED <<apiKey, output_path, tasks, nodes, reportsDir, outFile, siteDir, edits, lastReports>>

----------------------------------------------------------------------------
(* analyze_single_paper and analyst_node *)

SummaryLen == 500

PaperAnalysis(paper, summary, insights) ==
    [paper |-> paper, summary |-> summary, methodology_insights |-> insights,
     why_interesting |-> ""]

NoResult == [kind |-> "none"]

Returned(a) == [kind |-> "analysis", value |-> a]

Raised(e) == [kind |-> "exception", err |-> e]

PapersToAnalyze_All(st) == st.papers

\* [p for p in state["papers"] if p.arxiv_id in state["interesting_paper_ids"]]
PapersToAnalyze(st) ==
    SelectSeq(st.papers,
              LAMBDA p : \E i \in DOMAIN st.interesting_paper_ids :
                             st.interesting_paper_ids[i] = p.arxiv_id)

\* a coroutine of analyze_single_paper: where it is suspended, the prompt it
\* built, how its LLM call ended, and what it returned or raised
NewTask(paper) ==
    [paper |-> paper, st |-> "html", content |-> "", llm |-> "none", result |-> NoResult]

\* analyst_node up to asyncio.gather: the empty return, or one coroutine per paper
AnalystStart ==
    /\ pc = "analyst"
    /\ nodes' = Append(nodes, "analyst")
    /\ response' = NoResponse
    /\ LET todo == PapersToAnalyze(state) IN
         IF todo = <<>>
         THEN /\ state' = [state EXCEPT !.analyses = <<>>]
              /\ tasks' = <<>>
              /\ pc' = "report_writer"
         ELSE /\ tasks' = Map(todo, NewTask)
              /\ pc' = "gather"
              /\ UNCHANGED state
    /\ UNCHANGED <<apiKey, output_path, calls, reportsDir, outFile, siteDir, edits, lastReports>>

\* task i resumes from fetch_paper_html: text, None (404 or httpx.HTTPError),
\* or an exception of the HTML parsing; then builds its prompt and calls get_llm
TaskFetchHtml(i) ==
    /\ pc = "gather"
    /\ i \in DOMAIN tasks
    /\ tasks[i].st = "html"
    /\ calls' = [calls EXCEPT !.html = @ + 1]
    /\ \/ tasks' = [tasks EXCEPT ![i].st = "done", ![i].result = Raised("html parsing")]
       \/ \E content \in {"methodology", "abstract only"} :
            tasks' = IF GetLlmRaises(apiKey)
                     THEN [tasks EXCEPT ![i].st = "done", ![i].result = Raised("ValueError")]
                     ELSE [tasks EXCEPT ![i].st = "llm", ![i].content = content]
    /\ UNCHANGED <<pc, apiKey, output_path, state, response, nodes,
                   reportsDir, outFile, siteDir, edits, lastReports>>

Summary_Untruncated(content) == content

\* response.content[:500]
Summary(content) == Slice(content, SummaryLen)

\* the PaperAnalysis analyze_single_paper returns when its LLM call raised
UnavailableAnalysis(paper) ==
    PaperAnalysis(paper, "Analysis unavailable due to an error.",
                  "Analysis could not be completed.")

\* task i resumes from llm.ainvoke: a reply, or the exception the task catches
TaskLLM(i) ==
    /\ pc = "gather"
    /\ i \in DOMAIN tasks
    /\ tasks[i].st = "llm"
    /\ calls' = [calls EXCEPT !.llm = @ + 1]
    /\ \/ tasks' = [tasks EXCEPT ![i].st = "done", ![i].llm = "error",
                                 ![i].result = Returned(UnavailableAnalysis(tasks[i].paper))]
       \/ \E content \in AnalysisReplies :
            tasks' = [tasks EXCEPT ![i].st = "done", ![i].llm = "reply",
                                   ![i].result = Returned(PaperAnalysis(tasks[i].paper,
                                                     Summary(content), content))]
    /\ UNCHANGED <<pc, apiKey, output_path, state, response, nodes,
                   reportsDir, outFile, siteDir, edits, lastReports>>

GatherOutcome_FirstCompleted(ts) ==
    IF \E i \in DOMAIN ts : ts[i].st = "done" THEN "results" ELSE "pending"

GatherOutcome_Propagating(ts) ==
    IF \E i \in DOMAIN ts : ts[i].result.kind = "exception" THEN "raise"
    ELSE IF \A i \in DOMAIN ts : ts[i].st = "done" THEN "results"
    ELSE "pending"

\* how the await of asyncio.gather(..., return_exceptions=True) stands: it
\* resumes with the result list once every child has returned or raised, and
\* never raises a child's exception
GatherOutcome(ts) ==
    IF \A i \in DOMAIN ts : ts[i].st = "done" THEN "results" ELSE "pending"

\* gather's result list, in the order of its arguments
GatherResults(ts) == [i \in DOMAIN ts |-> ts[i].result]

Analyses_AllOrNothing(results) ==
    IF \E i \in DOMAIN results : results[i].kind # "analysis"
    THEN <<>>
    ELSE Map(results, LAMBDA r : r.value)

Analyses_DropUnavailable(results) ==
    Map(SelectSeq(results, LAMBDA r : r.kind = "analysis"
                                      /\ r.value.methodology_insights
                                             # "Analysis could not be completed."),
        LAMBDA r : r.value)

\* [r for r in results if isinstance(r, PaperAnalysis)]
Analyses(results) ==
    Map(SelectSeq(results, LAMBDA r : r.kind = "analysis"), LAMBDA r : r.value)

\* analyst_node after asyncio.gather
AnalystCollect ==
    /\ pc = "gather"
    /\ GatherOutcome(tasks) # "pending"
    /\ IF GatherOutcome(tasks) = "raise"
       THEN /\ pc' = "failed"
            /\ UNCHANGED state
       ELSE /\ state' = [state EXCEPT !.analyses = Analyses(GatherResults(tasks))]
            /\ pc' = "report_writer"
    /\ UNCHANGED <<apiKey, output_path, response, tasks, calls, nodes,
                   reportsDir, outFile, siteDir, edits, lastReports>>

----------------------------------------------------------------------------
(* report_writer_node *)

Placeholder == "# No interesting papers found today\n\nCheck back tomorrow!"

FallbackHeading == "# Today's Papers"

FallbackNote ==
    "Automatic report generation encountered an error. "
    \o "Here are the papers that were identified as interesting:"

LinkLine(a) == "- [" \o a.paper.title \o "](" \o a.paper.link \o ")"

PaperList_DropLast(analyses) ==
    Join("\n", Map(SubSeq(analyses, 1, Len(analyses) - 1), LinkLine))

\* "\n".join(f"- [{a.paper.title}]({a.paper.link})" for a in analyses)
PaperList(analyses) == Join("\n", Map(analyses, LinkLine))

FallbackReport(analyses) ==
    FallbackHeading \o "\n\n" \o FallbackNote \o "\n\n" \o PaperList(analyses)

\* report_writer_node up to its LLM call: the placeholder return, or get_llm
ReportWriterStart ==
    /\ pc = "report_writer"
    /\ nodes' = Append(nodes, "report_writer")
    /\ IF state.analyses = <<>>
       THEN /\ state' = [state EXCEPT !.final_report = Placeholder]
            /\ pc' = "write_report"
       ELSE /\ pc' = IF GetLlmRaises(apiKey) THEN "failed" ELSE "report_llm"
            /\ UNCHANGED state
    /\ UNCHANGED <<apiKey, output_path, response, tasks, calls,
                   reportsDir, outFile, siteDir, edits, lastReports>>

\* the awaited llm.ainvoke of report_writer_node returns or raises; the node
\* returns, the graph reaches END and run_agent returns final_report
ReportWriterLLM ==
    /\ pc = "report_llm"
    /\ calls' = [calls EXCEPT !.llm = @ + 1]
    /\ \/ /\ state' = [state EXCEPT !.final_report = FallbackReport(state.analyses)]
          /\ response' = LlmError("report_writer")
       \/ \E content \in ArticleReplies :
            /\ state' = [state EXCEPT !.final_report = content]
            /\ response' = Reply("report_writer", content)
    /\ pc' = "write_report"
    /\ UNCHANGED <<apiKey, output_path, tasks, nodes,
                   reportsDir, outFile, siteDir, edits, lastReports>>

----------------------------------------------------------------------------
(* cli.get_report_path and the report files *)

Date(y, m, d) == [y |-> y, m |-> m, d |-> d]

Digit(n) == Char("0123456789", n + 1)

\* the decimal digits of n, zero-padded to width w (strftime %Y, %m, %d)
RECURSIVE ZeroPad(_, _)
ZeroPad(n, w) == IF w = 0 THEN "" ELSE ZeroPad(n \div 10, w - 1) \o Digit(n % 10)

\* strftime("%Y-%m-%d")
DateStr(dt) == ZeroPad(dt.y, 4) \o "-" \o ZeroPad(dt.m, 2) \o "-" \o ZeroPad(dt.d, 2)

\* f"report-{date_str}.md"
ReportName(dt) == "report-" \o DateStr(dt) \o ".md"

\* datetime.now() of the modelled run
Today == Date(2026, 1, 10)

\* the day of an earlier run
Yesterday == Date(2026, 1, 9)

\* the days an artifact may be dated with
DateList == <<Date(2025, 12, 31), Date(2026, 1, 9), Date(2026, 1, 10),
              Date(2026, 2, 1), Date(2026, 10, 2)>>

\* async_main after run_agent: output_path.write_text(report)
WriteReport ==
    /\ pc = "write_report"
    /\ IF output_path = "None"
       THEN /\ reportsDir' = [n \in DOMAIN reportsDir \cup {ReportName(Today)} |->
                                 IF n = ReportName(Today) THEN state.final_report
                                 ELSE reportsDir[n]]
            /\ UNCHANGED outFile
       ELSE /\ outFile' = [kind |-> "file", path |-> output_path, text |-> state.final_report]
            /\ UNCHANGED reportsDir
    /\ pc' = "build_site"
    /\ UNCHANGED <<apiKey, output_path, state, response, tasks, calls, nodes, siteDir, edits, lastReports>>

----------------------------------------------------------------------------
(* the files of reports/: sorted(..., reverse=True) and Path.stem *)

\* code-point order of the characters of a report file name
CharOrder == "-.0123456789demoprt"

RECURSIVE Ord(_, _)
Ord(c, i) == IF i > Len(CharOrder) THEN 0
             ELSE IF Char(CharOrder, i) = c THEN i
             ELSE Ord(c, i + 1)

\* a < b for str, the comparison sorted() makes between two paths of reports/
RECURSIVE StrLess(_, _)
StrLess(a, b) ==
    IF Len(b) = 0 THEN FALSE
    ELSE IF Len(a) = 0 THEN TRUE
    ELSE IF Char(a, 1) = Char(b, 1) THEN StrLess(Drop(a, 1), Drop(b, 1))
    ELSE Ord(Char(a, 1), 1) < Ord(Char(b, 1), 1)

RECURSIVE SortedReverse_Ascending(_)
SortedReverse_Ascending(names) ==
    IF names = {} THEN <<>>
    ELSE LET lo == CHOOSE x \in names : \A y \in names \ {x} : StrLess(x, y)
         IN  <<lo>> \o SortedReverse_Ascending(names \ {lo})

\* sorted(names, reverse=True)
RECURSIVE SortedReverse(_)
SortedReverse(names) ==
    IF names = {} THEN <<>>
    ELSE LET hi == CHOOSE x \in names : \A y \in names \ {x} : StrLess(y, x)
         IN  <<hi>> \o SortedReverse(names \ {hi})

\* index of the last "." of s, 0 when there is none
RECURSIVE RFindDot(_, _)
RFindDot(s, i) == IF i = 0 THEN 0
                  ELSE IF Char(s, i) = "." THEN i
                  ELSE RFindDot(s, i - 1)

\* Path.stem
Stem(name) ==
    LET k == RFindDot(name, Len(name)) IN
    IF k <= 1 THEN name ELSE Slice(name, k - 1)

----------------------------------------------------------------------------
(* site_builder._parse_report *)

\* s[k:k+10] has the form dddd-dd-dd
IsDateAt(s, k) ==
    /\ k + 9 <= Len(s)
    /\ \A j \in {0, 1, 2, 3, 5, 6, 8, 9} : IsDigit(Char(s, k + j))
    /\ Char(s, k + 4) = "-"
    /\ Char(s, k + 7) = "-"

\* re.search(r"(\d{4}-\d{2}-\d{2})", path.name): the leftmost match, or "Unknown"
DateStrOf(name) ==
    IF \E k \in 1..Len(name) : IsDateAt(name, k)
    THEN LET k == CHOOSE i \in 1..Len(name) :
                      IsDateAt(name, i) /\ \A j \in 1..(i - 1) : ~IsDateAt(name, j)
         IN  SubSeq(name, k, k + 9)
    ELSE "Unknown"

MonthNames == <<"January", "February", "March", "April", "May", "June", "July",
                "August", "September", "October", "November", "December">>

IsLeap(y) == (y % 4 = 0 /\ y % 100 # 0) \/ y % 400 = 0

DaysInMonth(y, m) ==
    IF m = 2 THEN (IF IsLeap(y) THEN 29 ELSE 28)
    ELSE IF m \in {4, 6, 9, 11} THEN 30 ELSE 31

\* datetime.strptime(date_str, "%Y-%m-%d") does not raise ValueError
IsValidDate(date_str) ==
    /\ IsDateAt(date_str, 1)
    /\ Len(date_str) = 10
    /\ LET y == ToInt(SubSeq(date_str, 1, 4))
           m == ToInt(SubSeq(date_str, 6, 7))
           d == ToInt(SubSeq(date_str, 9, 10))
       IN  y >= 1 /\ m \in 1..12 /\ d \in 1..DaysInMonth(y, m)

\* date.strftime("%B %d, %Y"), or date_str itself after a ValueError
DateDisplay(date_str) ==
    IF IsValidDate(date_str)
    THEN MonthNames[ToInt(SubSeq(date_str, 6, 7))] \o " " \o SubSeq(date_str, 9, 10)
             \o ", " \o SubSeq(date_str, 1, 4)
    ELSE date_str

\* the positions of text at which "^" matches under re.MULTILINE
LineStarts(text) == {p \in 1..Len(text) : p = 1 \/ Char(text, p - 1) = "\n"}

\* the position after the last character of the line that holds position p
LineEnd(text, p) ==
    LET k == FindNewline(text, p) IN IF k = 0 THEN Len(text) + 1 ELSE k

\* the position after the run of "#" that starts at p
RECURSIVE AfterHashes(_, _)
AfterHashes(text, p) ==
    IF p <= Len(text) /\ Char(text, p) = "#" THEN AfterHashes(text, p + 1) ELSE p

\* the position after the run of whitespace (\s, "\n" included) that starts at p
RECURSIVE AfterSpaces(_, _)
AfterSpaces(text, p) ==
    IF p <= Len(text) /\ IsSpace(Char(text, p)) THEN AfterSpaces(text, p + 1) ELSE p

\* the positions at which group 1 of "^#+\s+(.+)$" can start for a match that
\* starts at p: after the hashes and at least one whitespace character, on a
\* character "." matches
HeadingGroupStarts(text, p) ==
    LET h == AfterHashes(text, p)
        w == AfterSpaces(text, h)
    IN  IF h = p THEN {}
        ELSE {q \in (h + 1)..w : q <= Len(text) /\ Char(text, q) # "\n"}

\* group 1 of the match of "^#+\s+(.+)$" that starts at p: "\s+" is greedy, so
\* the group starts as late as it can and runs to the end of its line
HeadingGroup(text, p) ==
    LET starts == HeadingGroupStarts(text, p)
        q == CHOOSE x \in starts : \A y \in starts : y <= x
    IN  SubSeq(text, q, LineEnd(text, q) - 1)

\* group 1 of the match of "^\*\*(.+?)\*\*$" that starts at p, given one exists
BoldGroup(text, p) == SubSeq(text, p + 2, LineEnd(text, p) - 3)

\* "^\*\*(.+?)\*\*$" matches at p: the line at p starts and ends with "**" around
\* at least one character
BoldMatchesAt(text, p) ==
    LET e == LineEnd(text, p) IN
    /\ e - p >= 5
    /\ At(text, p, "**")
    /\ At(text, e - 2, "**")

\* title: re.search for a heading, then for a bold line, then the default
Title(text, date_str) ==
    LET starts == LineStarts(text)
        headings == {p \in starts : HeadingGroupStarts(text, p) # {}}
        bolds == {p \in starts : BoldMatchesAt(text, p)}
    IN  IF headings # {} THEN HeadingGroup(text, First(headings))
        ELSE IF bolds # {} THEN BoldGroup(text, First(bolds))
        ELSE "Report " \o date_str

ExcerptLen == 200

\* the condition of the excerpt loop on one line
IsExcerptLine(line) ==
    LET stripped == Strip(line)
        lowered == Lower(stripped)
    IN  /\ stripped # ""
        /\ ~StartsWith(stripped, "#")
        /\ ~StartsWith(stripped, "**")
        /\ ~StartsWith(lowered, "here's my")
        /\ ~StartsWith(lowered, "here is my")

Truncate_NoEllipsis(stripped) == Slice(stripped, ExcerptLen)

\* excerpt = stripped[:200], plus "..." if len(stripped) > 200
Truncate(stripped) ==
    IF Len(stripped) > ExcerptLen THEN Slice(stripped, ExcerptLen) \o "..."
    ELSE Slice(stripped, ExcerptLen)

\* the excerpt loop over lines[i:]: the first line that passes, or ""
RECURSIVE ExcerptFrom(_, _)
ExcerptFrom(lines, i) ==
    IF i > Len(lines) THEN ""
    ELSE IF IsExcerptLine(lines[i]) THEN Truncate(Strip(lines[i]))
    ELSE ExcerptFrom(lines, i + 1)

Excerpt(text) == ExcerptFrom(SplitLines(text), 1)

\* len(re.findall(r"arxiv\.org/abs/", text))
PaperCount(text) == Count(text, "arxiv.org/abs/")

\* "no interesting papers" in title.lower()
IsEmpty(title) == Contains(Lower(title), "no interesting papers")

\* markdown.markdown(text, extensions=["extra", "smarty"]) on the constructs the
\* reports are made of: hash headers, paragraphs, one-level bullet lists, and
\* inline links, strong emphasis and smart apostrophes

\* for an inline link "[" ... "](" ... ")" that starts at i: the position of
\* its "](", else 0
LinkMiddle(s, i) == IF Char(s, i) = "[" THEN Find(s, "](", i + 1) ELSE 0

\* for strong emphasis "**" ... "**" that starts at i, around at least one
\* character: the position of the closing "**", else 0
StrongClose(s, i) == IF At(s, i, "**") THEN Find(s, "**", i + 3) ELSE 0

\* the characters an inline pattern can start with
InlineMarks == {"[", "*", "'"}

\* the inline patterns applied to s, leftmost first
RECURSIVE Inline(_)
Inline(s) ==
    LET marks == {i \in 1..Len(s) : Char(s, i) \in InlineMarks} IN
    IF marks = {} THEN s
    ELSE LET i == First(marks)
             before == Slice(s, i - 1)
             mid == LinkMiddle(s, i)
             close == IF mid = 0 THEN 0 ELSE Find(s, ")", mid + 2)
             strong == StrongClose(s, i)
         IN  IF close > 0
             THEN before \o "<a href=\"" \o SubSeq(s, mid + 2, close - 1) \o "\">"
                      \o Inline(SubSeq(s, i + 1, mid - 1)) \o "</a>"
                      \o Inline(Drop(s, close))
             ELSE IF strong > 0
             THEN before \o "<strong>" \o Inline(SubSeq(s, i + 2, strong - 1))
                      \o "</strong>" \o Inline(Drop(s, strong + 1))
             ELSE IF Char(s, i) = "'"
             THEN before
                      \o (IF i = 1 \/ IsSpace(Char(s, i - 1)) THEN "&lsquo;" ELSE "&rsquo;")
                      \o Inline(Drop(s, i))
             ELSE Slice(s, i) \o Inline(Drop(s, i))

\* s without the "#" characters at its end
RECURSIVE RStripHashes(_)
RStripHashes(s) ==
    IF Len(s) > 0 /\ Char(s, Len(s)) = "#" THEN RStripHashes(Slice(s, Len(s) - 1)) ELSE s

\* the heading level of a line that starts with "#"
HeaderLevel(line) == Min(AfterHashes(line, 1) - 1, 6)

\* the element a hash header line renders to
Header(line) ==
    LET tag == "h" \o Char("123456", HeaderLevel(line))
    IN  "<" \o tag \o ">"
            \o Inline(Strip(RStripHashes(Drop(line, HeaderLevel(line)))))
            \o "</" \o tag \o ">"

\* the line starts a bullet list item
IsListItem(line) == Len(line) >= 2 /\ Char(line, 1) \in {"-", "*", "+"} /\ Char(line, 2) = " "

\* the texts of the items of a list block: a bullet line starts an item, any
\* other line continues the item before it
RECURSIVE ListItems(_, _, _)
ListItems(block, i, items) ==
    IF i > Len(block) THEN items
    ELSE IF IsListItem(block[i])
         THEN ListItems(block, i + 1, Append(items, LStrip(Drop(block[i], 2))))
         ELSE ListItems(block, i + 1,
                        [items EXCEPT ![Len(items)] = @ \o "\n" \o block[i]])

ListItem(item) == "<li>" \o Inline(item) \o "</li>"

UList(block) ==
    "<ul>\n" \o Join("\n", Map(ListItems(block, 1, <<>>), ListItem)) \o "\n</ul>"

Paragraph(block) == "<p>" \o Inline(LStrip(Join("\n", block))) \o "</p>"

\* the element the consecutive non-header lines of one block render to
Flush(block) ==
    IF block = <<>> THEN <<>>
    ELSE IF IsListItem(block[1]) THEN <<UList(block)>>
    ELSE <<Paragraph(block)>>

\* the elements lines[i:] render to, block holding the lines read so far of
\* the block under way; a blank line ends a block, a "#" line is a header
RECURSIVE Elements(_, _, _)
Elements(lines, i, block) ==
    IF i > Len(lines) THEN Flush(block)
    ELSE IF Strip(lines[i]) = ""
         THEN Flush(block) \o Elements(lines, i + 1, <<>>)
    ELSE IF Char(lines[i], 1) = "#"
         THEN Flush(block) \o <<Header(lines[i])>> \o Elements(lines, i + 1, <<>>)
    ELSE Elements(lines, i + 1, Append(block, lines[i]))

Markdown(text) == Join("\n", Elements(SplitLines(text), 1, <<>>))

\* _parse_report(path) for the file called name that holds text
ParseReport(name, text) ==
    LET date_str == DateStrOf(name)
        title == Title(text, date_str)
    IN  [date_str |-> date_str,
         date_display |-> DateDisplay(date_str),
         title |-> title,
         excerpt |-> Excerpt(text),
         html |-> Markdown(text),
         slug |-> Stem(name),
         paper_count |-> PaperCount(text),
         is_empty |-> IsEmpty(title)]

----------------------------------------------------------------------------
(* site_builder.build_site *)

NoLink == ""

\* the href of the "older" link of page i of reports (newest first)
NavOlder(reports, i) ==
    IF i < Len(reports) THEN reports[i + 1].slug \o ".html" ELSE NoLink

\* the href of the "newer" link of page i
NavNewer(reports, i) ==
    IF i > 1 THEN reports[i - 1].slug \o ".html" ELSE NoLink

NavTitleLen == 50

\* the text of the "older" link: older["title"][:50]
NavOlderTitle(reports, i) ==
    IF i < Len(reports) THEN Slice(reports[i + 1].title, NavTitleLen) ELSE ""

\* the text of the "newer" link: newer["title"][:50]
NavNewerTitle(reports, i) ==
    IF i > 1 THEN Slice(reports[i - 1].title, NavTitleLen) ELSE ""

\* "</h1>", "</h2>" or "</h3>" is at position k of html
HeadingCloseAt(html, k) ==
    /\ At(html, k, "</h")
    /\ k + 4 <= Len(html)
    /\ Char(html, k + 3) \in {"1", "2", "3"}
    /\ Char(html, k + 4) = ">"

\* ".*?</h[123]>" from position k on: the position of the first closing tag,
\* 0 when a "\n" (which "." does not match) or the end of html comes first
RECURSIVE FirstHeadingClose(_, _)
FirstHeadingClose(html, k) ==
    IF k + 4 > Len(html) \/ Char(html, k) = "\n" THEN 0
    ELSE IF HeadingCloseAt(html, k) THEN k
    ELSE FirstHeadingClose(html, k + 1)

\* the position of the last character of the match of
\* "^<h[123][^>]*>.*?</h[123]>" in html, 0 when there is none: without
\* re.MULTILINE "^" matches at the start of html only, and "[^>]*" ends at the
\* first ">"
HeadingMatchEnd(html) ==
    IF ~(At(html, 1, "<h") /\ Len(html) >= 3 /\ Char(html, 3) \in {"1", "2", "3"})
    THEN 0
    ELSE LET gt == Find(html, ">", 4)
             k == FirstHeadingClose(html, gt + 1)
         IN  IF gt = 0 \/ k = 0 THEN 0 ELSE k + 4

\* re.sub(r"^<h[123][^>]*>.*?</h[123]>", "", report["html"], count=1).strip()
BodyHtml(html) == Strip(Drop(html, HeadingMatchEnd(html)))

DescriptionLen == 200

\* the page build_site writes for reports[i]: the values it puts into the
\* article template and the page shell
ArticlePage(reports, i) ==
    [kind |-> "article",
     slug |-> reports[i].slug,
     title |-> reports[i].title,
     og_description |-> Slice(reports[i].excerpt, DescriptionLen),
     date_display |-> reports[i].date_display,
     body_html |-> BodyHtml(reports[i].html),
     nav_older |-> NavOlder(reports, i),
     nav_older_title |-> NavOlderTitle(reports, i),
     nav_newer |-> NavNewer(reports, i),
     nav_newer_title |-> NavNewerTitle(reports, i)]

\* str(n) for n >= 0
RECURSIVE IntStr(_)
IntStr(n) == IF n < 10 THEN Digit(n) ELSE IntStr(n \div 10) \o Digit(n % 10)

\* the badge of an index entry: "" when paper_count is 0
Badge(n) ==
    IF n = 0 THEN "" ELSE IntStr(n) \o " paper" \o (IF n # 1 THEN "s" ELSE "")

IndexItem_LinkByDate(report) ==
    IF report.is_empty
    THEN [class |-> "report-item report-item-empty",
          date_display |-> report.date_display,
          heading |-> "No interesting papers today"]
    ELSE [class |-> "report-item",
          date_display |-> report.date_display,
          badge |-> Badge(report.paper_count),
          href |-> report.date_str \o ".html",
          title |-> report.title,
          excerpt |-> report.excerpt]

\* the <li> of the index for one report
IndexItem(report) ==
    IF report.is_empty
    THEN [class |-> "report-item report-item-empty",
          date_display |-> report.date_display,
          heading |-> "No interesting papers today"]
    ELSE [class |-> "report-item",
          date_display |-> report.date_display,
          badge |-> Badge(report.paper_count),
          href |-> report.slug \o ".html",
          title |-> report.title,
          excerpt |-> report.excerpt]

\* index.html: one item per report, in the order of reports
IndexPage(reports) == [kind |-> "index", items |-> Map(reports, IndexItem)]

\* reports_dir.glob("report-*.md")
Glob(dir) == {n \in DOMAIN dir : StartsWith(n, "report-") /\ Len(n) >= 10
                                  /\ Drop(n, Len(n) - 3) = ".md"}

\* the texts a run writes as its report: the placeholder, an article of the
\* report writer, or the fallback article over the analysed papers
RunReports ==
    {Placeholder} \cup ArticleReplies
        \cup {FallbackReport([i \in DOMAIN feed |-> [paper |-> feed[i]]]) : feed \in Feeds}

\* _parse_report is a function of the file's name and text alone: its value
\* for the dated names and the texts of runs, evaluated once
ParsedReports ==
    [f \in {<<ReportName(DateList[i]), text>> : i \in DOMAIN DateList, text \in RunReports} |->
        ParseReport(f[1], f[2])]

\* reports = [_parse_report(f) for f in report_files]
Reports(dir) ==
    LET report_files == SortedReverse(Glob(dir))
        Parsed(name) ==
            IF <<name, dir[name]>> \in DOMAIN ParsedReports
            THEN ParsedReports[<<name, dir[name]>>]
            ELSE ParseReport(name, dir[name])
    IN  [i \in DOMAIN report_files |-> Parsed(report_files[i])]

WriteSite_AppendIndex(reports, site) ==
    LET pageOf == [i \in DOMAIN reports |-> reports[i].slug \o ".html"]
        written == {pageOf[i] : i \in DOMAIN reports} \cup {"index.html"}
        old == IF "index.html" \in DOMAIN site THEN site["index.html"].items ELSE <<>>
    IN  IF reports = <<>> THEN site
        ELSE [f \in DOMAIN site \cup written |->
                 IF f = "index.html"
                 THEN [kind |-> "index", items |-> old \o IndexPage(reports).items]
                 ELSE IF f \in written
                      THEN ArticlePage(reports, CHOOSE i \in DOMAIN reports : pageOf[i] = f)
                      ELSE site[f]]

\* the contents of site/ after build_site has written the pages of reports
\* and the index; with no reports it returns before it writes anything
WriteSite(reports, site) ==
    LET pageOf == [i \in DOMAIN reports |-> reports[i].slug \o ".html"]
        written == {pageOf[i] : i \in DOMAIN reports} \cup {"index.html"}
    IN  IF reports = <<>> THEN site
        ELSE [f \in DOMAIN site \cup written |->
                 IF f = "index.html" THEN IndexPage(reports)
                 ELSE IF f \in written
                      THEN ArticlePage(reports, CHOOSE i \in DOMAIN reports : pageOf[i] = f)
                      ELSE site[f]]

\* the contents of site/ after build_site(dir, site)
BuildSite(dir, site) == WriteSite(Reports(dir), site)

\* async_main: build_site(), then the process ends
BuildSiteStep ==
    /\ pc = "build_site"
    /\ lastReports' = Reports(reportsDir)
    /\ siteDir' = WriteSite(lastReports', siteDir)
    /\ pc' = "exit"
    /\ UNCHANGED <<apiKey, output_path, state, response, tasks, calls, nodes,
                   reportsDir, outFile, edits>>

----------------------------------------------------------------------------
(* One run of the command *)

EmptyDir == [n \in {} |-> ""]

NoCalls == [feed |-> 0, html |-> 0, llm |-> 0]

\* reports/ and site/ as an earlier run left them
EarlierRuns ==
    {[reports |-> EmptyDir, site |-> EmptyDir]} \cup
    {[reports |-> d, site |-> BuildSite(d, EmptyDir)] :
        d \in {[n \in {ReportName(Yesterday)} |-> Placeholder]}}

Init ==
    /\ pc = "start"
    /\ apiKey \in BOOLEAN
    /\ output_path \in {"None", "out.md"}
    /\ state = make_initial_state
    /\ response = NoResponse
    /\ tasks = <<>>
    /\ calls = NoCalls
    /\ nodes = <<>>
    /\ \E e \in EarlierRuns : reportsDir = e.reports /\ siteDir = e.site
    /\ outFile = NoFile
    /\ edits = 0
    /\ lastReports = <<>>

Next ==
    \/ AsyncMainStart
    \/ CoordinatorFetch
    \/ CoordinatorLLM
    \/ AnalystStart
    \/ \E i \in 1..MaxPapers : TaskFetchHtml(i)
    \/ \E i \in 1..MaxPapers : TaskLLM(i)
    \/ AnalystCollect
    \/ ReportWriterStart
    \/ ReportWriterLLM
    \/ WriteReport
    \/ BuildSiteStep

Spec == Init /\ [][Next]_vars

\* the event loop resumes every ready coroutine, every awaited network call
\* returns or raises, and async_main goes on to store the report (fairness is
\* stated per step of the run up to the stored report)
FairSpec ==
    /\ Spec
    /\ WF_vars(AsyncMainStart)
    /\ WF_vars(CoordinatorFetch)
    /\ WF_vars(CoordinatorLLM)
    /\ WF_vars(AnalystStart)
    /\ \A i \in 1..MaxPapers : WF_vars(TaskFetchHtml(i))
    /\ \A i \in 1..MaxPapers : WF_vars(TaskLLM(i))
    /\ WF_vars(AnalystCollect)
    /\ WF_vars(ReportWriterStart)
    /\ WF_vars(ReportWriterLLM)
    /\ WF_vars(WriteReport)

----------------------------------------------------------------------------
(* build_site over a reports directory that changes between builds *)

SiteDates == {DateList[i] : i \in 1..NumDates}

SiteTexts == {Placeholder} \cup ArticleReplies

SiteDirs ==
    UNION {[{ReportName(dt) : dt \in S} -> SiteTexts] : S \in SUBSET SiteDates}

SiteInit ==
    /\ pc = "site_idle"
    /\ apiKey = TRUE
    /\ output_path = "None"
    /\ state = make_initial_state
    /\ response = NoResponse
    /\ tasks = <<>>
    /\ calls = NoCalls
    /\ nodes = <<>>
    /\ reportsDir \in SiteDirs
    /\ siteDir = EmptyDir
    /\ outFile = NoFile
    /\ edits = 0
    /\ lastReports = <<>>

SitePc == {"site_idle", "site_edited", "site_built"}

\* build_site(reports_dir, site_dir)
SiteBuild ==
    /\ pc \in SitePc
    /\ lastReports' = Reports(reportsDir)
    /\ siteDir' = WriteSite(lastReports', siteDir)
    /\ pc' = "site_built"
    /\ UNCHANGED <<pipelineVars, reportsDir, edits>>

\* a run stores the artifact of day dt (a same-day artifact is overwritten)
SiteWrite(dt, text) ==
    /\ pc \in SitePc
    /\ edits < MaxEdits
    /\ edits' = edits + 1
    /\ reportsDir' = [n \in DOMAIN reportsDir \cup {ReportName(dt)} |->
                         IF n = ReportName(dt) THEN text ELSE reportsDir[n]]
    /\ pc' = "site_edited"
    /\ UNCHANGED <<pipelineVars, siteDir, lastReports>>

\* an artifact is deleted from reports/
SiteRemove(dt) ==
    /\ pc \in SitePc
    /\ edits < MaxEdits
    /\ ReportName(dt) \in DOMAIN reportsDir
    /\ edits' = edits + 1
    /\ reportsDir' = [n \in DOMAIN reportsDir \ {ReportName(dt)} |-> reportsDir[n]]
    /\ pc' = "site_edited"
    /\ UNCHANGED <<pipelineVars, siteDir, lastReports>>

SiteNext ==
    \/ SiteBuild
    \/ \E dt \in SiteDates, text \in SiteTexts : SiteWrite(dt, text)
    \/ \E dt \in SiteDates : SiteRemove(dt)

SiteSpec == SiteInit /\ [][SiteNext]_vars

----------------------------------------------------------------------------
(* _parse_report and build_site over one report of a few lines *)

MaxTextLines == 3   \* most lines in a report of the parse specification

\* a line of more than 200 characters
LongLine == "Long " \o Repeat("z", 200)

\* lines a report may hold: LLM preamble in both spellings, a heading, a lone
\* "#", a bold-only line, a blank line, an indented line, a long line
ParseLines == {"Here's my engaging article:", "HERE IS MY take", "# Actual Title",
               "#", "**Bold Title**", "", "  Padded intro.", LongLine}

ParseTexts == {Join("\n", ls) : ls \in SeqsUpTo(ParseLines, MaxTextLines)}

\* file names with a date, with a date that is not a calendar day, with none
ParseNames == {ReportName(Today), "report-2026-02-30.md", "report-latest.md"}

ParseInit ==
    /\ pc = "site_idle"
    /\ apiKey = TRUE
    /\ output_path = "None"
    /\ state = make_initial_state
    /\ response = NoResponse
    /\ tasks = <<>>
    /\ calls = NoCalls
    /\ nodes = <<>>
    /\ \E n \in ParseNames, t \in ParseTexts : reportsDir = [f \in {n} |-> t]
    /\ siteDir = EmptyDir
    /\ outFile = NoFile
    /\ edits = 0
    /\ lastReports = <<>>

ParseNext == SiteBuild

ParseSpec == ParseInit /\ [][ParseNext]_vars

----------------------------------------------------------------------------
(* Properties *)

Range(f) == {f[i] : i \in DOMAIN f}

\* coordinator_node has returned
CoordinatorReturned == Len(nodes) >= 1 /\ pc \notin {"coordinator_llm", "failed"}

\* analyst_node has returned
AnalystReturned == Len(nodes) >= 2 /\ pc # "gather"

\* report_writer_node has returned, the graph is at END
RunDone == pc \in {"write_report", "build_site", "exit"}

\* C1: the ids coordinator_node stores are ids of fetched papers, whatever
\* lines the LLM reply holds.
C1_SelectedAreFetched ==
    \A i \in DOMAIN state.interesting_paper_ids :
        \E j \in DOMAIN state.papers :
            state.papers[j].arxiv_id = state.interesting_paper_ids[i]

\* a reply with a hallucinated id and an id of a paper that was not fetched,
\* next to a fetched one that was stored
C1_Witness ==
    /\ response = Reply("coordinator", "2401.9\n2401.1")
    /\ state.interesting_paper_ids = <<"2401.1">>
    /\ pc = "analyst"

RaisedTasks == {i \in DOMAIN tasks : tasks[i].result.kind = "exception"}

\* the papers of the tasks that did not raise, in launch order
SurvivingPapers ==
    LET keep == SelectSeq([i \in DOMAIN tasks |-> i], LAMBDA i : i \notin RaisedTasks)
    IN  [k \in DOMAIN keep |-> tasks[keep[k]].paper]

\* C2: when exactly one of the N analysis tasks raises, analyses holds the
\* N-1 other papers' results; and while the gather is pending, a task that
\* raised leaves every unfinished sibling able to take its next step.
C2_OneFailureIsolated ==
    /\ (AnalystReturned /\ Cardinality(RaisedTasks) = 1) =>
          /\ Len(state.analyses) = Len(tasks) - 1
          /\ [k \in DOMAIN state.analyses |-> state.analyses[k].paper] = SurvivingPapers
    /\ (pc = "gather" /\ RaisedTasks # {}) =>
          \A j \in DOMAIN tasks :
              tasks[j].st # "done" => ENABLED (TaskFetchHtml(j) \/ TaskLLM(j))

C2_Witness ==
    /\ AnalystReturned
    /\ Len(tasks) = 2
    /\ RaisedTasks = {2}
    /\ Len(state.analyses) = 1
    /\ state.analyses[1].paper = tasks[1].paper

RankOf(i) == Cardinality({j \in 1..i : j \notin RaisedTasks})

C4_SelectionFailureDegrades ==
    response = LlmError("coordinator") =>
        /\ pc = "analyst"
        /\ state.interesting_paper_ids = <<>>
        /\ state.papers # <<>>
        /\ nodes = <<"coordinator">>
        /\ ENABLED AnalystStart

C4_Witness ==
    /\ response = LlmError("coordinator")
    /\ Len(state.papers) = 2
    /\ pc = "analyst"

\* C5: when the Synthesis LLM call fails, final_report is the heading, the
\* failure note and one "- [title](link)" line per analysis, in order.
C5_FallbackArticle ==
    response = LlmError("report_writer") =>
        LET lines == SplitLines(state.final_report)
            k == Len(state.analyses)
        IN  /\ k >= 1
            /\ state.final_report # ""
            /\ Len(lines) = 4 + k
            /\ lines[1] = "# Today's Papers"
            /\ lines[2] = ""
            /\ lines[3] = "Automatic report generation encountered an error. Here are the papers that were identified as interesting:"
            /\ lines[4] = ""
            /\ \A i \in 1..k :
                  lines[4 + i] = "- [" \o state.analyses[i].paper.title \o "]("
                                       \o state.analyses[i].paper.link \o ")"

C5_Witness ==
    /\ response = LlmError("report_writer")
    /\ Len(state.analyses) = 2
    /\ state.analyses[1].paper # state.analyses[2].paper
    /\ RunDone

\* no fetched paper has an interesting id
NoneQualifies ==
    \A j \in DOMAIN state.papers :
        \A i \in DOMAIN state.interesting_paper_ids :
            state.interesting_paper_ids[i] # state.papers[j].arxiv_id

\* the LLM calls of a run whose stages after Selection had empty input
SelectionCalls == IF state.papers = <<>> THEN 0 ELSE 1

\* C6: a stage given empty input calls no LLM: an empty feed stores no ids; no
\* qualifying paper launches no task and stores no analysis; no analysis
\* stores the placeholder.
C6_EmptyInputNoLlm ==
    /\ (CoordinatorReturned /\ state.papers = <<>>) =>
          state.interesting_paper_ids = <<>> /\ calls.llm = 0
    /\ (AnalystReturned /\ NoneQualifies) =>
          /\ state.analyses = <<>>
          /\ tasks = <<>>
          /\ calls.html = 0
          /\ calls.llm = SelectionCalls
    /\ (RunDone /\ state.analyses = <<>>) =>
          /\ Contains(state.final_report, "No interesting papers")
          /\ state.final_report = "# No interesting papers found today\n\nCheck back tomorrow!"
          /\ calls.llm = SelectionCalls

\* a finished run on papers none of which was selected
C6_Witness ==
    /\ pc = "exit"
    /\ Len(state.papers) = 2
    /\ state.interesting_paper_ids = <<>>
    /\ calls.llm = 1
    /\ Contains(state.final_report, "No interesting papers")

\* a finished run on an empty feed
C6_WitnessEmptyFeed ==
    pc = "exit" /\ state.papers = <<>> /\ calls.llm = 0 /\ calls.feed = 1

StageOrder == <<"coordinator", "analyst", "report_writer">>

\* C7: the nodes run in the order coordinator, analyst, report_writer, each
\* at most once, a run that reaches END has run all three, and
\* report_writer_node starts only when every analysis task has returned or
\* raised.
C7_StagesInOrder ==
    /\ Len(nodes) <= 3
    /\ nodes = SubSeq(StageOrder, 1, Len(nodes))
    /\ RunDone => nodes = StageOrder
    /\ Len(nodes) = 3 => \A i \in DOMAIN tasks : tasks[i].result.kind # "none"

C7_Witness ==
    /\ pc = "exit"
    /\ nodes = StageOrder
    /\ Len(tasks) = 2
    /\ tasks[1].result.kind = "analysis"
    /\ tasks[2].result.kind = "exception"

\* selection stored at least one id
Selected == state.interesting_paper_ids # <<>>

\* C8: once ids are selected, no failure of an HTML fetch or an LLM call makes
\* the run fail, and the run reaches END with an article text.
C8_SelectedRunCompletes ==
    /\ [](Selected => pc # "failed")
    /\ (Selected ~> (RunDone /\ state.final_report # ""))

\* a finished run in which an HTML fetch, an analysis LLM call, an analysis
\* task and the synthesis LLM call all failed
C8_Witness ==
    /\ pc = "exit"
    /\ Selected
    /\ Len(tasks) = 2
    /\ tasks[1].content = "abstract only"
    /\ tasks[1].llm = "error"
    /\ tasks[2].result.kind = "exception"
    /\ response = LlmError("report_writer")
    /\ state.final_report # ""

\* C9 as stated: with the credential missing, the feed is never fetched, no
\* node runs and no report is written.
C9_MissingKeyFailsAtStart ==
    ~apiKey =>
        /\ calls.feed = 0
        /\ nodes = <<>>
        /\ ~RunDone
        /\ ReportName(Today) \notin DOMAIN reportsDir
        /\ outFile = NoFile

\* dt1 is an earlier day than dt2
DateBefore(dt1, dt2) ==
    \/ dt1.y < dt2.y
    \/ dt1.y = dt2.y /\ dt1.m < dt2.m
    \/ dt1.y = dt2.y /\ dt1.m = dt2.m /\ dt1.d < dt2.d

AllDates == SiteDates \cup {Today, Yesterday}

\* the date an artifact's file name carries
DateOf(name) == CHOOSE dt \in AllDates : ReportName(dt) = name

PageName(name) == Stem(name) \o ".html"

\* the artifact of the nearest earlier day, "" when name is the oldest
ImmediatelyOlder(name) ==
    LET older == {m \in DOMAIN reportsDir : DateBefore(DateOf(m), DateOf(name))}
    IN  IF older = {} THEN ""
        ELSE PageName(CHOOSE m \in older :
                 \A o \in older \ {m} : DateBefore(DateOf(o), DateOf(m)))

\* the artifact of the nearest later day, "" when name is the newest
ImmediatelyNewer(name) ==
    LET newer == {m \in DOMAIN reportsDir : DateBefore(DateOf(name), DateOf(m))}
    IN  IF newer = {} THEN ""
        ELSE PageName(CHOOSE m \in newer :
                 \A o \in newer \ {m} : DateBefore(DateOf(m), DateOf(o)))

\* build_site has just returned
SiteBuilt == pc \in {"site_built", "exit"}

\* C10: after a build, each artifact's page links "older" to the page of the
\* nearest earlier day and "newer" to the page of the nearest later day, and
\* has no such link when there is no such day.
C10_NavLinks ==
    SiteBuilt =>
        \A n \in DOMAIN reportsDir :
            /\ PageName(n) \in DOMAIN siteDir
            /\ siteDir[PageName(n)].nav_older = ImmediatelyOlder(n)
            /\ siteDir[PageName(n)].nav_newer = ImmediatelyNewer(n)

\* three artifacts across a year's end: the middle page has both links
C10_Witness ==
    /\ pc = "site_built"
    /\ DOMAIN reportsDir = {ReportName(DateList[1]), ReportName(DateList[2]),
                            ReportName(DateList[3])}
    /\ siteDir["report-2026-01-09.html"].nav_older = "report-2025-12-31.html"
    /\ siteDir["report-2026-01-09.html"].nav_newer = "report-2026-01-10.html"
    /\ siteDir["report-2025-12-31.html"].nav_older = ""
    /\ siteDir["report-2026-01-10.html"].nav_newer = ""

\* one artifact: neither link
C10_WitnessSingle ==
    /\ pc = "site_built"
    /\ DOMAIN reportsDir = {"report-2026-01-09.md"}
    /\ siteDir["report-2026-01-09.html"].nav_older = ""
    /\ siteDir["report-2026-01-09.html"].nav_newer = ""

\* p is a prefix of s
IsPrefix(p, s) == Len(p) <= Len(s) /\ SubSeq(s, 1, Len(p)) = p

\* the Analysis Results the tasks created
CreatedAnalyses == {tasks[i].result.value : i \in {j \in DOMAIN tasks : tasks[j].result.kind = "analysis"}}

InCoordinator == pc \in {"coordinator", "coordinator_llm"}

InAnalyst == pc \in {"analyst", "gather"}

InReportWriter == pc \in {"report_writer", "report_llm"}

\* C19: a step of coordinator_node changes only papers and
\* interesting_paper_ids, a step of analyst_node only analyses, a step of
\* report_writer_node only final_report; and while a node runs, the fields
\* of the later nodes still hold their initial values, so it reads nothing a
\* later node wrote.
C19_StagesWriteOwnFields ==
    [][/\ InCoordinator =>
             /\ state'.analyses = state.analyses
             /\ state'.final_report = state.final_report
             /\ state.analyses = <<>> /\ state.final_report = ""
       /\ InAnalyst =>
             /\ state'.papers = state.papers
             /\ state'.interesting_paper_ids = state.interesting_paper_ids
             /\ state'.final_report = state.final_report
             /\ state.final_report = ""
       /\ InReportWriter =>
             /\ state'.papers = state.papers
             /\ state'.interesting_paper_ids = state.interesting_paper_ids
             /\ state'.analyses = state.analyses
       /\ (~InCoordinator /\ ~InAnalyst /\ ~InReportWriter /\ pc # "start") =>
             state' = state]_vars

\* a finished run in which each node wrote its fields
C19_Witness ==
    /\ pc = "exit"
    /\ Len(state.papers) = 2
    /\ Len(state.interesting_paper_ids) = 1
    /\ Len(state.analyses) = 1
    /\ state.final_report # ""

----------------------------------------------------------------------------
(* Properties of the site *)

\* the file name of an artifact without its extension ".md"
ExpectedSlug(name) == SubSeq(name, 1, Len(name) - 3)

\* the position of an artifact in the newest-first order of reports/
Rank(name) ==
    1 + Cardinality({m \in DOMAIN reportsDir : DateBefore(DateOf(name), DateOf(m))})

\* the date of an artifact as the pages show it
ExpectedDisplay(name) ==
    MonthNames[DateOf(name).m] \o " " \o ZeroPad(DateOf(name).d, 2) \o ", "
        \o ZeroPad(DateOf(name).y, 4)

\* C11: build_site is idempotent: once the site is built, building it again
\* from the unchanged reports directory yields the same files with the same
\* contents.
C11_BuildIdempotent ==
    pc = "site_built" => BuildSite(reportsDir, siteDir) = siteDir

\* a site rebuilt after two changes of reports/, with two or more pages
C11_Witness ==
    /\ pc = "site_built"
    /\ edits = 2
    /\ Len(lastReports) >= 2
    /\ Len(siteDir["index.html"].items) = Len(lastReports)

\* C12 as stated: the index has one entry per artifact, newest first, and
\* every entry, those of reports classified as empty included, links to
\* <slug>.html.
C12_EveryEntryLinks ==
    (pc = "site_built" /\ DOMAIN reportsDir # {}) =>
        LET items == siteDir["index.html"].items IN
        /\ Len(items) = Cardinality(DOMAIN reportsDir)
        /\ \A n \in DOMAIN reportsDir :
               /\ items[Rank(n)].date_display = ExpectedDisplay(n)
               /\ "href" \in DOMAIN items[Rank(n)]
               /\ items[Rank(n)].href = ExpectedSlug(n) \o ".html"

\* C12 amended: the index has one entry per artifact, newest first; the entry
\* of a report that is not classified as empty links to <slug>.html, and the
\* entry of a report classified as empty carries no link.
C12_IndexEntries ==
    (pc = "site_built" /\ DOMAIN reportsDir # {}) =>
        LET items == siteDir["index.html"].items IN
        /\ Len(items) = Cardinality(DOMAIN reportsDir)
        /\ \A n \in DOMAIN reportsDir :
               /\ items[Rank(n)].date_display = ExpectedDisplay(n)
               /\ lastReports[Rank(n)].slug = ExpectedSlug(n)
               /\ IF lastReports[Rank(n)].is_empty
                  THEN "href" \notin DOMAIN items[Rank(n)]
                  ELSE /\ "href" \in DOMAIN items[Rank(n)]
                       /\ items[Rank(n)].href = ExpectedSlug(n) \o ".html"

\* three artifacts: the newest entry is the linked article, an older one is
\* an empty report without a link
C12_Witness ==
    /\ pc = "site_built"
    /\ Len(lastReports) = 3
    /\ ~lastReports[1].is_empty
    /\ siteDir["index.html"].items[1].href = "report-2026-01-10.html"
    /\ lastReports[2].is_empty
    /\ "href" \notin DOMAIN siteDir["index.html"].items[2]

\* C13 as stated: after a build the site directory holds index.html and
\* exactly one page per artifact now in reports/, whatever the artifacts
\* (none included) and whatever builds came before.
C13_SiteMatchesReports ==
    pc = "site_built" =>
        DOMAIN siteDir =
            {"index.html"} \cup {ExpectedSlug(n) \o ".html" : n \in Glob(reportsDir)}

----------------------------------------------------------------------------
(* Properties of _parse_report *)

\* the text of the artifact that was parsed into report
TextOf(report) == reportsDir[CHOOSE n \in DOMAIN reportsDir : Stem(n) = report.slug]

\* a markdown heading line: "#"s, whitespace, then text
IsHeadingLine(line) ==
    LET h == AfterHashes(line, 1)
        t == AfterSpaces(line, h)
    IN  h > 1 /\ t > h /\ t <= Len(line)

HeadingText(line) == Drop(line, AfterSpaces(line, AfterHashes(line, 1)) - 1)

\* a bold-emphasis-only line: "**", text, "**"
IsBoldLine(line) ==
    /\ Len(line) >= 5
    /\ SubSeq(line, 1, 2) = "**"
    /\ SubSeq(line, Len(line) - 1, Len(line)) = "**"

BoldText(line) == SubSeq(line, 3, Len(line) - 2)

\* the title by precedence over the lines of text
ExpectedTitle(text, date_str) ==
    LET lines == SplitLines(text)
        headings == {i \in DOMAIN lines : IsHeadingLine(lines[i])}
        bolds == {i \in DOMAIN lines : IsBoldLine(lines[i])}
    IN  IF headings # {} THEN HeadingText(lines[First(headings)])
        ELSE IF bolds # {} THEN BoldText(lines[First(bolds)])
        ELSE "Report " \o date_str

\* C14 as stated: the title is the text of the first heading line if any line
\* is a heading, else the text of the first bold-only line, else
\* "Report <date_str>".
C14_TitlePrecedence ==
    pc = "site_built" =>
        \A i \in DOMAIN lastReports :
            lastReports[i].title =
                ExpectedTitle(TextOf(lastReports[i]), lastReports[i].date_str)

\* s begins with a preamble phrase, in any case
IsPreamble(s) ==
    \E phrase \in {"here's my", "here is my"} :
        Len(s) >= Len(phrase) /\ Lower(SubSeq(s, 1, Len(phrase))) = phrase

\* the line, without surrounding whitespace, is not blank, not a heading,
\* not bold emphasis and not preamble
Qualifies(line) ==
    LET l == Strip(line) IN
    /\ l # ""
    /\ SubSeq(l, 1, 1) # "#"
    /\ ~(Len(l) >= 2 /\ SubSeq(l, 1, 2) = "**")
    /\ ~IsPreamble(l)

\* C15: the excerpt derives from the first qualifying line (surrounding
\* whitespace removed): the line itself if it has at most 200 characters, else
\* its first 200 characters and "...", 203 characters in all; it is never a
\* preamble line, and it is empty when no line qualifies.
C15_Excerpt ==
    pc = "site_built" =>
        \A i \in DOMAIN lastReports :
            LET lines == SplitLines(TextOf(lastReports[i]))
                qualifying == {k \in DOMAIN lines : Qualifies(lines[k])}
                excerpt == lastReports[i].excerpt
            IN  /\ ~IsPreamble(excerpt)
                /\ IF qualifying = {} THEN excerpt = ""
                   ELSE LET l == Strip(lines[First(qualifying)]) IN
                        IF Len(l) <= 200 THEN excerpt = l
                        ELSE /\ excerpt = SubSeq(l, 1, 200) \o "..."
                             /\ Len(excerpt) = 203

\* a report whose preamble line is skipped and whose long line is truncated
C15_Witness ==
    /\ pc = "site_built"
    /\ Len(lastReports) = 1
    /\ StartsWith(TextOf(lastReports[1]), "Here's my engaging article:\n")
    /\ Len(lastReports[1].excerpt) = 203
    /\ StartsWith(lastReports[1].excerpt, "Long zzz")

\* the positions of html at which a heading element starts
HeadingElements(html) ==
    {k \in 1..(Len(html) - 2) : SubSeq(html, k, k + 1) = "<h" /\ IsDigit(Char(html, k + 2))}

\* html with its first heading element cut out
WithoutFirstHeading(html) ==
    LET k == First(HeadingElements(html))
        e == Find(html, "</h", k) + 4
    IN  Strip(Slice(html, k - 1) \o Drop(html, e))

\* C16 as stated: for every report with a heading, the article body is the
\* rendered HTML less exactly one heading element, its first, wherever the
\* heading sits in the report.
C16_HeadingStripped ==
    pc = "site_built" =>
        \A i \in DOMAIN lastReports :
            LET html == lastReports[i].html
                body == siteDir[lastReports[i].slug \o ".html"].body_html
                lines == SplitLines(TextOf(lastReports[i]))
            IN  (\E k \in DOMAIN lines : IsHeadingLine(lines[k])) =>
                    /\ Cardinality(HeadingElements(body)) =
                           Cardinality(HeadingElements(html)) - 1
                    /\ body = WithoutFirstHeading(html)

----------------------------------------------------------------------------
(* Properties of a run and its site *)

\* the path async_main wrote the report to
WrittenPath == IF output_path = "None" THEN ReportName(Today) ELSE output_path

\* C18 as stated: when a run has finished, the site it built has the article
\* page and the index entry of the report it has just written, for the dated
\* path and for an --output path alike.
C18_RunObservable ==
    pc = "exit" =>
        LET report == ParseReport(WrittenPath, state.final_report)
            page == report.slug \o ".html"
        IN  /\ page \in DOMAIN siteDir
            /\ siteDir[page].title = report.title
            /\ siteDir[page].body_html = BodyHtml(report.html)
            /\ "index.html" \in DOMAIN siteDir
            /\ \E i \in DOMAIN siteDir["index.html"].items :
                   siteDir["index.html"].items[i] = IndexItem(report)

\* C20 as stated: the placeholder article is classified as empty, so on the
\* index of the site built by every run without analyses the run's entry is
\* the de-emphasised one, without link, excerpt or badge.
C20_PlaceholderShownEmpty ==
    (pc = "exit" /\ state.analyses = <<>>) =>
        /\ state.final_report = Placeholder
        /\ ParseReport(WrittenPath, state.final_report).is_empty
        /\ "index.html" \in DOMAIN siteDir
        /\ \E i \in DOMAIN siteDir["index.html"].items :
               siteDir["index.html"].items[i] =
                   [class |-> "report-item report-item-empty",
                    date_display |-> "January 10, 2026",
                    heading |-> "No interesting papers today"]

====
